---- MODULE Spec2Model ----
(***************************************************************************)
(* Model of the WIGO token metrics collector (src/wigo_rpc_v003.py, with   *)
(* the earlier variants wigo_rpc_v001.py / wigo_rpc_v002.py sharing the    *)
(* same locator, decoder and chunk loop).                                  *)
(*                                                                         *)
(* One call of WigoMetricsCollector.get_token_metrics is modelled as a     *)
(* sequential process whose position is pc.  Every remote call             *)
(* (eth.get_block, eth.get_logs) and every file write is a step that may   *)
(* succeed or raise.  A killed process (Crash) and a new invocation of     *)
(* main() (Restart) are modelled as well.                                  *)
(*                                                                         *)
(* Token amounts: TLC integers are 32 bit, so base units are counted in    *)
(* multiples of 10^16 wei; 10^18 wei (one token) is WeiPerToken = 100.     *)
(* `value / 1e18` and `volume += value` are Python float operations; the   *)
(* model keeps their rounding (to nearest, ties to even) with a            *)
(* significand of MantissaBits bits instead of 53.                         *)
(***************************************************************************)
EXTENDS Integers, Sequences, FiniteSets, TLC

\* ------------------------------------------------------------------------
\* Program constants
\* ------------------------------------------------------------------------

\* `if chunk_size < 100: break`
MinChunkSize == 100

\* `max_retries = 3` in get_block_timestamp
MaxRetries == 3

\* divisor of `value / 1e18`, in the model's amount unit (10^16 wei)
WeiPerToken == 100

\* datetime.fromtimestamp(ts).date(): one calendar date per 86400 seconds
SecondsPerDay == 86400

\* TRANSFER_EVENT_SIGNATURE, the topic the log filter asks for
TRANSFER_EVENT_SIGNATURE == "ddf252ad"

\* Python's None where an integer block number is expected
None == -1

\* ------------------------------------------------------------------------
\* Bounds of the model
\* ------------------------------------------------------------------------

\* number of invocations of main() in one behaviour (1 = no restart)
MaxRuns == 2

\* height of the medium chain used for multi-chunk scans
MidHeight == 230

\* height of the chain scanned against the span-limited client stub
StubHeight == 620

\* locator check: chains of 1..MaxLocHeight blocks, timestamps 1..MaxLocTs
MaxLocHeight == 4

MaxLocTs == 5

\* bits of the significand of a float (53 in the interpreter); 100, the
\* model's 1e18, is a float of 5 bits as 10^18 is one of 53
MantissaBits == 5

\* ------------------------------------------------------------------------
\* Helpers
\* ------------------------------------------------------------------------

Min(a, b) == IF a <= b THEN a ELSE b

Abs(x) == IF x < 0 THEN 0 - x ELSE x

Range(s) == {s[i] : i \in 1..Len(s)}

\* F at x (at x and y), the arguments evaluated one time only however often
\* the body of F uses them
Once(F(_), x) == CHOOSE r \in {F(v) : v \in {x}} : TRUE

Once2(F(_, _), x, y) == CHOOSE r \in {F(v, w) : v \in {x}, w \in {y}} : TRUE

\* Python truthiness of an Optional[int]: `not x` holds for None and for 0
Falsy(x) == x = None \/ x = 0

\* ------------------------------------------------------------------------
\* Raw logs and fixtures
\* ------------------------------------------------------------------------

\* A 32-byte topic word carrying an address: 12 bytes of padding followed
\* by the 20 address bytes.
AddrTopic(a) == <<"000000000000000000000000", a>>

SigTopic == <<TRANSFER_EVENT_SIGNATURE>>

\* big-endian hex digits of n (at least one digit)
RECURSIVE HexDigits(_)
HexDigits(n) == IF n < 16 THEN <<n>> ELSE Append(HexDigits(n \div 16), n % 16)

TransferLog(i, b, from, to, amount) ==
    [logIndex |-> i, blockNumber |-> b,
     topics |-> <<SigTopic, AddrTopic(from), AddrTopic(to)>>,
     data |-> HexDigits(amount)]

\* The 5-block chain of the concrete scenario: all five blocks on one date.
SmallChain == <<100, 200, 300, 400, 500>>

\* Same five blocks, blocks 4 and 5 on the next calendar date.
SmallChainTwoDays == <<100, 200, 300, SecondsPerDay + 100, SecondsPerDay + 200>>

\* one log at block 2 (A -> B, 1 token) and one at block 4 (B -> C, 2 tokens)
SmallLogs == << TransferLog(1, 2, "A", "B", WeiPerToken),
                TransferLog(2, 4, "B", "C", 2 * WeiPerToken) >>

\* A chain of h blocks, one block every 600 seconds (144 blocks per day).
LinearChain(h) == [b \in 1..h |-> 1000 + 600 * b]

\* Logs of the medium chain: well-formed transfers (the last one in the last
\* block of the chain), a log with two topics, a log with four topics and a
\* log with an empty payload.
MidLogs ==
    << TransferLog(1, 1, "A", "B", 150),
       [logIndex |-> 2, blockNumber |-> 50,
        topics |-> <<SigTopic, AddrTopic("A")>>, data |-> HexDigits(7)],
       [logIndex |-> 3, blockNumber |-> 102,
        topics |-> <<SigTopic, AddrTopic("B"), AddrTopic("C"), AddrTopic("A")>>,
        data |-> HexDigits(25)],
       [logIndex |-> 4, blockNumber |-> 150,
        topics |-> <<SigTopic, AddrTopic("C"), AddrTopic("A")>>, data |-> <<>>],
       TransferLog(5, MidHeight - 5, "B", "A", 275),
       TransferLog(6, MidHeight, "C", "A", 300) >>

\* Inputs of get_token_metrics per fixture: targets are the integer
\* timestamps of start_date / end_date, sizes the chunk_size argument.
\* Nothing in get_token_metrics compares the two dates, so a start_date
\* after the end_date is among the inputs.
Fixtures ==
    { [chain |-> SmallChain, logs |-> SmallLogs,
       starts |-> {100, 450}, ends |-> {100, 450}, sizes |-> {1, 2, 3, 200}],
      [chain |-> SmallChainTwoDays, logs |-> SmallLogs,
       starts |-> {100}, ends |-> {SecondsPerDay + 200}, sizes |-> {1, 4}],
      [chain |-> LinearChain(MidHeight), logs |-> MidLogs,
       starts |-> {1600},
       ends |-> {1000 + 600 * (MidHeight - 10), 1000 + 600 * MidHeight},
       sizes |-> {100, 200}] }

\* ------------------------------------------------------------------------
\* State
\* ------------------------------------------------------------------------
VARIABLES
    chain,          \* the node: chain[b] is the timestamp of block b
    logs,           \* the node: every Transfer log of the token contract
    span_limit,     \* the node: 0 = unreliable; N > 0 = stub that fails
                    \*   exactly the get_logs requests spanning more than N blocks
    start_ts,       \* int(start_date.timestamp())
    end_ts,         \* int(end_date.timestamp())
    cs0,            \* the chunk_size argument
    pc,             \* position in get_token_metrics
    left, right,    \* locals of find_block_by_timestamp
    current_block,  \* local of get_token_metrics
    end_block,      \* local of get_token_metrics
    chunk_size,     \* local of get_token_metrics
    chunk_end,      \* local of get_token_metrics
    events,         \* result of eth.get_logs for the chunk in flight
    idx,            \* position of `for event in events`
    attempt,        \* loop variable of get_block_timestamp
    chunk_metrics,  \* the defaultdict of the chunk in flight, in insertion order
    progress,       \* session_dir/progress.txt
    csv_file,       \* session_dir/wigo_metrics_v..._live.csv
    prev_progress,  \* progress.txt in the previous session's directory
    ret,            \* value returned by get_token_metrics
    run,            \* history: number of the current invocation
    start_block,    \* history: the block the first search returned
    fetches,        \* history: get_logs requests of this run
    handed,         \* history: append_chunk_data calls of this run
    chunk_logs,     \* history: logIndex of the logs counted in chunk_metrics
    exit,           \* history: how the chunk loop was left
    failed_at,      \* history: where the exception being handled was raised
    saved,          \* history: the last_processed values written by this run
    crash_pc        \* history: the phase in which the previous run was killed

vars == <<chain, logs, span_limit, start_ts, end_ts, cs0, pc, left, right,
          current_block, end_block, chunk_size, chunk_end, events, idx,
          attempt, chunk_metrics, progress, csv_file, prev_progress, ret, run,
          start_block, fetches, handed, chunk_logs, exit, failed_at, saved,
          crash_pc>>

node == <<chain, logs, span_limit>>
args == <<start_ts, end_ts, cs0>>
search == <<left, right>>
chunk == <<chunk_end, events, idx, attempt, chunk_metrics, chunk_logs>>
disk == <<progress, csv_file, prev_progress, saved>>

\* w3.eth.block_number
BlockNumber == Len(chain)

\* a file that does not exist / progress.txt as written / opened for writing
\* (truncated) but never written
NoProgress == [state |-> "absent", start_block |-> 0, end_block |-> 0,
               last_processed |-> 0]

WrittenProgress(s, e, l) == [state |-> "written", start_block |-> s,
                             end_block |-> e, last_processed |-> l]

TruncatedProgress == [state |-> "truncated", start_block |-> 0, end_block |-> 0,
                      last_processed |-> 0]

NoCsv == [exists |-> FALSE, rows |-> <<>>]

NoneFrame == [kind |-> "None", rows |-> <<>>]

Pending == [kind |-> "pending", rows |-> <<>>]

\* ------------------------------------------------------------------------
\* decode_transfer_event
\* ------------------------------------------------------------------------

\* int(hex_string, 16) of a non-empty digit string, most significant first
RECURSIVE HexToInt(_)
HexToInt(digits) ==
    IF Len(digits) = 0 THEN 0
    ELSE 16 * HexToInt(SubSeq(digits, 1, Len(digits) - 1)) + digits[Len(digits)]

RECURSIVE Pow2(_)
Pow2(n) == IF n = 0 THEN 1 ELSE 2 * Pow2(n - 1)

\* number of binary digits of n
RECURSIVE BitLen(_)
BitLen(n) == IF n = 0 THEN 0 ELSE 1 + BitLen(n \div 2)

\* the integer nearest to n / d, a tie going to the even neighbour
RoundHalfEven(n, d) ==
    LET q == n \div d
        r == n % d
    IN  IF 2 * r < d THEN q
        ELSE IF 2 * r > d THEN q + 1
        ELSE IF q % 2 = 0 THEN q ELSE q + 1

\* the float 0.0
ZeroVolume == [sig |-> 0, exp |-> 0]

\* the float nearest to n * 2^e: sig * 2^exp with a significand of exactly
\* MantissaBits bits
ToFloat(n, e) ==
    LET Nearest(v, x) ==
            IF v = 0 THEN ZeroVolume
            ELSE LET len == BitLen(v)
                 IN  IF len <= MantissaBits
                     THEN [sig |-> v * Pow2(MantissaBits - len),
                           exp |-> x - (MantissaBits - len)]
                     ELSE LET s == len - MantissaBits
                              r == RoundHalfEven(v, Pow2(s))
                          IN  IF r = Pow2(MantissaBits)
                              THEN [sig |-> Pow2(MantissaBits - 1),
                                    exp |-> x + s + 1]
                              ELSE [sig |-> r, exp |-> x + s]
    IN  Once2(Nearest, n, e)

\* float(n) of a Python int
FromInt(n) == ToFloat(n, 0)

\* a / b of two floats, b # 0.0, correctly rounded: the quotient of the
\* significands is taken with MantissaBits + 2 more bits and a sticky bit
FloatDiv(a, b) ==
    LET Quotient(x, y) ==
            LET n == x.sig * Pow2(MantissaBits + 2)
                q == n \div y.sig
                sticky == IF n % y.sig = 0 THEN 0 ELSE 1
            IN  ToFloat(2 * q + sticky, x.exp - y.exp - (MantissaBits + 3))
    IN  Once2(Quotient, a, b)

\* `value / 1e18`: the int is converted to a float, then divided
Div1e18(value) == FloatDiv(FromInt(value), FromInt(WeiPerToken))

\* `daily_metrics['volume'] += transfer_data['value']`: float addition
AddVolume(a, b) ==
    LET Sum(x, y) ==
            IF x.sig = 0 THEN y
            ELSE IF y.sig = 0 THEN x
            ELSE LET e == Min(x.exp, y.exp)
                 IN  ToFloat(x.sig * Pow2(x.exp - e) + y.sig * Pow2(y.exp - e), e)
    IN  Once2(Sum, a, b)

\* '0x' + topic.hex()[-40:] : the low 20 bytes of a topic word
Low20(word) == word[Len(word)]

\* to_checksum_address accepts exactly 20-byte values
IsAddressWord(word) == Len(word) = 2

NoTransfer == [ok |-> FALSE, from_address |-> "", to_address |-> "",
               value |-> ZeroVolume]

\* The try block raises (and None is returned) when topics[1] or topics[2]
\* does not exist, when a topic does not hold an address, or when the
\* payload is empty (int('', 16) raises ValueError).  Python indexes from 0:
\* topics[1], topics[2] are the 2nd and 3rd element.
Decodable(event_log) ==
    /\ Len(event_log.topics) >= 3
    /\ IsAddressWord(event_log.topics[2])
    /\ IsAddressWord(event_log.topics[3])
    /\ Len(event_log.data) >= 1

decode_transfer_event(event_log) ==
    IF Decodable(event_log)
    THEN [ok |-> TRUE,
          from_address |-> Low20(event_log.topics[2]),
          to_address |-> Low20(event_log.topics[3]),
          value |-> Div1e18(HexToInt(event_log.data))]
    ELSE NoTransfer

\* ------------------------------------------------------------------------
\* Daily aggregation (the loop body over one event)
\* ------------------------------------------------------------------------

\* datetime.fromtimestamp(ts).date(), as a day number
DateOf(ts) == ts \div SecondsPerDay

\* the value the defaultdict constructs on first access of a date
NewDaily(date) == [date |-> date, transactions |-> 0, active_addresses |-> {},
                   volume |-> ZeroVolume, senders |-> {}, receivers |-> {}]

HasDate(metrics, date) == \E i \in 1..Len(metrics) : metrics[i].date = date

\* `chunk_metrics[date_key]`: get or create, in insertion order
WithDate(metrics, date) ==
    IF HasDate(metrics, date) THEN metrics ELSE Append(metrics, NewDaily(date))

\* mutant of UpdateDaily: the receiver is left out of active_addresses
UpdateDailySenderOnly(d, t) ==
    [d EXCEPT !.transactions = @ + 1,
              !.active_addresses = @ \cup {t.from_address},
              !.volume = AddVolume(@, t.value),
              !.senders = @ \cup {t.from_address},
              !.receivers = @ \cup {t.to_address}]

\* lines 241-246
UpdateDaily(d, t) ==
    [d EXCEPT !.transactions = @ + 1,
              !.active_addresses = @ \cup {t.from_address, t.to_address},
              !.volume = AddVolume(@, t.value),
              !.senders = @ \cup {t.from_address},
              !.receivers = @ \cup {t.to_address}]

\* lines 238-246 for one event whose block date is date_key
Observe(metrics, date_key, event) ==
    LET Counted(transfer_data) ==
            LET m == WithDate(metrics, date_key)
            IN  IF transfer_data.ok
                THEN [i \in 1..Len(m) |->
                         IF m[i].date = date_key
                         THEN UpdateDaily(m[i], transfer_data)
                         ELSE m[i]]
                ELSE metrics
    IN  Once(Counted, decode_transfer_event(event))

\* append_chunk_data: one CSV row per date of chunk_metrics
CsvRow(m) == [date |-> m.date, transactions |-> m.transactions,
              active_addresses |-> Cardinality(m.active_addresses),
              volume |-> m.volume,
              unique_senders |-> Cardinality(m.senders),
              unique_receivers |-> Cardinality(m.receivers)]

CsvRows(metrics) == [i \in 1..Len(metrics) |-> CsvRow(metrics[i])]

\* eth.get_logs(event_filter): the contract's logs whose first topic is the
\* Transfer signature and whose block lies in [fromBlock, toBlock], in
\* block order
MatchesFilter(l, fromBlock, toBlock) ==
    /\ Len(l.topics) >= 1
    /\ l.topics[1] = SigTopic
    /\ fromBlock <= l.blockNumber
    /\ l.blockNumber <= toBlock

get_logs(fromBlock, toBlock) ==
    SelectSeq(logs, LAMBDA l : MatchesFilter(l, fromBlock, toBlock))


\* ------------------------------------------------------------------------
\* Initial states
\* ------------------------------------------------------------------------

\* State right after WigoMetricsCollector() was constructed (fresh session
\* directory, no CSV, no progress file) and get_token_metrics was entered:
\* the first binary search starts with left = 1, right = block_number.
Start(c, l, limit, s, e, size) ==
    /\ chain = c /\ logs = l /\ span_limit = limit
    /\ start_ts = s /\ end_ts = e /\ cs0 = size
    /\ pc = "find_start"
    /\ left = 1 /\ right = Len(c)
    /\ current_block = None /\ end_block = None
    /\ chunk_size = size /\ chunk_end = 0
    /\ events = <<>> /\ idx = 1 /\ attempt = 0
    /\ chunk_metrics = <<>> /\ chunk_logs = {}
    /\ progress = NoProgress /\ csv_file = NoCsv
    /\ prev_progress = NoProgress
    /\ saved = <<>>
    /\ ret = Pending
    /\ run = 1 /\ start_block = None
    /\ fetches = <<>> /\ handed = <<>>
    /\ exit = "none" /\ failed_at = "none" /\ crash_pc = "none"

Init ==
    \E fx \in Fixtures : \E s \in fx.starts, e \in fx.ends, size \in fx.sizes :
        Start(fx.chain, fx.logs, 0, s, e, size)

\* ------------------------------------------------------------------------
\* find_block_by_timestamp, one loop iteration per step
\* ------------------------------------------------------------------------

\* the timestamp the search in progress looks for
Target == IF pc = "find_start" THEN start_ts ELSE end_ts

\* `return x` of find_block_by_timestamp, back in get_token_metrics
\* (lines 198-199): the first result goes to current_block, then the second
\* search runs, whatever the first returned.
FindReturn(result) ==
    IF pc = "find_start"
    THEN /\ current_block' = result
         /\ start_block' = result
         /\ left' = 1
         /\ right' = BlockNumber
         /\ pc' = "find_end"
         /\ UNCHANGED end_block
    ELSE /\ end_block' = result
         /\ pc' = "check_bounds"
         /\ UNCHANGED <<current_block, start_block, left, right>>

\* the branch the loop body takes once eth.get_block(mid) returned
Probe(mid, ts, target) ==
    IF ts = target THEN "found"
    ELSE IF ts < target THEN "upper" ELSE "lower"

FindProbeOk ==
    /\ pc \in {"find_start", "find_end"}
    /\ left <= right
    /\ LET mid == (left + right) \div 2
           branch == Probe(mid, chain[mid], Target)
       IN  CASE branch = "found" -> FindReturn(mid)
             [] branch = "upper" ->
                  /\ left' = mid + 1
                  /\ UNCHANGED <<right, pc, current_block, end_block, start_block>>
             [] branch = "lower" ->
                  /\ right' = mid - 1
                  /\ UNCHANGED <<left, pc, current_block, end_block, start_block>>
    /\ UNCHANGED <<node, args, chunk_size, chunk, disk, ret, run, fetches,
                   handed, exit, failed_at, crash_pc>>

\* eth.get_block(mid) raises: `return None`
FindProbeFail ==
    /\ pc \in {"find_start", "find_end"}
    /\ span_limit = 0
    /\ left <= right
    /\ FindReturn(None)
    /\ failed_at' = "locate"
    /\ UNCHANGED <<node, args, chunk_size, chunk, disk, ret, run, fetches,
                   handed, exit, crash_pc>>

\* mutant of Exhausted: the lower neighbour is returned
ExhaustedRight(l, r, height) == r

\* the value returned when the loop ends without an exact match
Exhausted(l, r, height) == IF l <= height THEN l ELSE r

FindExhausted ==
    /\ pc \in {"find_start", "find_end"}
    /\ left > right
    /\ FindReturn(Exhausted(left, right, BlockNumber))
    /\ UNCHANGED <<node, args, chunk_size, chunk, disk, ret, run, fetches,
                   handed, exit, failed_at, crash_pc>>

\* ------------------------------------------------------------------------
\* get_token_metrics
\* ------------------------------------------------------------------------

\* mutant of CheckBounds: only the end of the range is tested
CheckBoundsEndOnly ==
    /\ pc = "check_bounds"
    /\ IF Falsy(end_block)
       THEN /\ ret' = NoneFrame
            /\ pc' = "returned"
            /\ exit' = "locate_failed"
       ELSE /\ pc' = "save_progress"
            /\ UNCHANGED <<ret, exit>>
    /\ UNCHANGED <<node, args, search, current_block, end_block, chunk_size,
                   chunk, disk, run, start_block, fetches, handed, failed_at,
                   crash_pc>>

\* lines 201-203
CheckBounds ==
    /\ pc = "check_bounds"
    /\ IF Falsy(current_block) \/ Falsy(end_block)
       THEN /\ ret' = NoneFrame
            /\ pc' = "returned"
            /\ exit' = "locate_failed"
       ELSE /\ pc' = "save_progress"
            /\ UNCHANGED <<ret, exit>>
    /\ UNCHANGED <<node, args, search, current_block, end_block, chunk_size,
                   chunk, disk, run, start_block, fetches, handed, failed_at,
                   crash_pc>>

\* mutant of SaveProgressOk: the first checkpoint marks the whole range
SaveProgressAtEnd ==
    /\ pc = "save_progress"
    /\ progress' = WrittenProgress(current_block, end_block, end_block)
    /\ saved' = Append(saved, end_block)
    /\ pc' = "loop"
    /\ UNCHANGED <<node, args, search, current_block, end_block, chunk_size,
                   chunk, csv_file, prev_progress, ret, run, start_block, fetches,
                   handed, exit, failed_at, crash_pc>>

\* lines 207-209
SaveProgressOk ==
    /\ pc = "save_progress"
    /\ progress' = WrittenProgress(current_block, end_block, current_block)
    /\ saved' = Append(saved, current_block)
    /\ pc' = "loop"
    /\ UNCHANGED <<node, args, search, current_block, end_block, chunk_size,
                   chunk, csv_file, prev_progress, ret, run, start_block, fetches,
                   handed, exit, failed_at, crash_pc>>

\* What a failed `with open(path, 'w') as f: f.write(...)` leaves behind:
\* the file as it was when open() raised, an empty file when the write or
\* the close raised.
AfterFailedWrite(old) == {old, TruncatedProgress}

\* lines 207-209 raising: not inside the try block, so the exception leaves
\* get_token_metrics
SaveProgressFail ==
    /\ pc = "save_progress"
    /\ span_limit = 0
    /\ progress' \in AfterFailedWrite(progress)
    /\ UNCHANGED saved
    /\ pc' = "raised"
    /\ exit' = "raised"
    /\ UNCHANGED <<node, args, search, current_block, end_block, chunk_size,
                   chunk, csv_file, prev_progress, ret, run, start_block, fetches,
                   handed, failed_at, crash_pc>>

\* `chunk_end = min(current_block + chunk_size, end_block)`
ChunkEnd(cur, size, last) == Min(cur + size, last)

\* the loop condition `current_block < end_block`
LoopCondition(cur, last) == cur < last

\* lines 211-212
LoopTest ==
    /\ pc = "loop"
    /\ IF LoopCondition(current_block, end_block)
       THEN /\ chunk_end' = ChunkEnd(current_block, chunk_size, end_block)
            /\ pc' = "fetch"
            /\ UNCHANGED exit
       ELSE /\ pc' = "return"
            /\ exit' = "done"
            /\ UNCHANGED chunk_end
    /\ UNCHANGED <<node, args, search, current_block, end_block, chunk_size,
                   events, idx, attempt, chunk_metrics, chunk_logs, disk, ret,
                   run, start_block, fetches, handed, failed_at, crash_pc>>

FetchRecord(ok) == [fromBlock |-> current_block, toBlock |-> chunk_end,
                    size |-> chunk_size, ok |-> ok]

\* whether the node answers the request for [current_block, chunk_end]
NodeMayAnswer ==
    span_limit = 0 \/ chunk_end - current_block + 1 <= span_limit

NodeMayFail ==
    span_limit = 0 \/ chunk_end - current_block + 1 > span_limit

\* lines 215-232, get_logs returns
FetchOk ==
    /\ pc = "fetch"
    /\ NodeMayAnswer
    /\ chunk_metrics' = <<>>
    /\ chunk_logs' = {}
    /\ events' = get_logs(current_block, chunk_end)
    /\ idx' = 1
    /\ attempt' = 0
    /\ fetches' = Append(fetches, FetchRecord(TRUE))
    /\ pc' = "events"
    /\ UNCHANGED <<node, args, search, current_block, end_block, chunk_size,
                   chunk_end, disk, ret, run, start_block, handed, exit,
                   failed_at, crash_pc>>

\* lines 215-232, get_logs raises
FetchFail ==
    /\ pc = "fetch"
    /\ NodeMayFail
    /\ chunk_metrics' = <<>>
    /\ chunk_logs' = {}
    /\ fetches' = Append(fetches, FetchRecord(FALSE))
    /\ failed_at' = "fetch"
    /\ pc' = "except"
    /\ UNCHANGED <<node, args, search, current_block, end_block, chunk_size,
                   chunk_end, events, idx, attempt, disk, ret, run,
                   start_block, handed, exit, crash_pc>>

\* mutant of EventOk: the exception of a log that cannot be decoded leaves
\* decode_transfer_event and reaches the handler of the chunk loop
EventOkDecodeRaises ==
    /\ pc = "events"
    /\ idx <= Len(events)
    /\ IF decode_transfer_event(events[idx]).ok
       THEN /\ chunk_metrics' = Observe(chunk_metrics,
                                        DateOf(chain[events[idx].blockNumber]),
                                        events[idx])
            /\ chunk_logs' = chunk_logs \cup {events[idx].logIndex}
            /\ idx' = idx + 1
            /\ attempt' = 0
            /\ UNCHANGED <<failed_at, pc>>
       ELSE /\ failed_at' = "decode"
            /\ pc' = "except"
            /\ UNCHANGED <<chunk_metrics, chunk_logs, idx, attempt>>
    /\ UNCHANGED <<node, args, search, current_block, end_block, chunk_size,
                   chunk_end, events, disk, ret, run, start_block, fetches,
                   handed, exit, crash_pc>>

\* lines 234-246 for events[idx], get_block (attempt `attempt`) returning
EventOk ==
    /\ pc = "events"
    /\ idx <= Len(events)
    /\ LET event == events[idx]
           date_key == DateOf(chain[event.blockNumber])
       IN  /\ chunk_metrics' = Observe(chunk_metrics, date_key, event)
           /\ chunk_logs' = IF decode_transfer_event(event).ok
                            THEN chunk_logs \cup {event.logIndex}
                            ELSE chunk_logs
    /\ idx' = idx + 1
    /\ attempt' = 0
    /\ UNCHANGED <<node, args, search, current_block, end_block, chunk_size,
                   chunk_end, events, disk, ret, run, start_block, fetches,
                   handed, exit, failed_at, pc, crash_pc>>

\* get_block_timestamp, lines 71-74: get_block raised and attempts are left
EventRetry ==
    /\ pc = "events"
    /\ span_limit = 0
    /\ idx <= Len(events)
    /\ attempt < MaxRetries - 1
    /\ attempt' = attempt + 1
    /\ UNCHANGED <<node, args, search, current_block, end_block, chunk_size,
                   chunk_end, events, idx, chunk_metrics, chunk_logs, disk,
                   ret, run, start_block, fetches, handed, exit, failed_at,
                   pc, crash_pc>>

\* mutant of EventRaise: get_block_timestamp starts over instead of raising
EventRaiseRetries ==
    /\ pc = "events"
    /\ span_limit = 0
    /\ idx <= Len(events)
    /\ attempt = MaxRetries - 1
    /\ attempt' = 0
    /\ UNCHANGED <<node, args, search, current_block, end_block, chunk_size,
                   chunk_end, events, idx, chunk_metrics, chunk_logs, disk,
                   ret, run, start_block, fetches, handed, exit, failed_at,
                   pc, crash_pc>>

\* get_block_timestamp, lines 72-73: the last attempt raised, the exception
\* reaches the handler of the chunk loop
EventRaise ==
    /\ pc = "events"
    /\ span_limit = 0
    /\ idx <= Len(events)
    /\ attempt = MaxRetries - 1
    /\ failed_at' = "events"
    /\ pc' = "except"
    /\ UNCHANGED <<node, args, search, current_block, end_block, chunk_size,
                   chunk, disk, ret, run, start_block, fetches, handed, exit,
                   crash_pc>>

HandedRecord == [fromBlock |-> current_block, toBlock |-> chunk_end,
                 logs |-> chunk_logs, metrics |-> chunk_metrics]

\* the CSV after append_chunk_data(metrics): nothing is written for an
\* empty dict, rows are appended (mode 'a') otherwise
AppendedCsv(file, metrics) ==
    IF Len(metrics) = 0 THEN file
    ELSE [exists |-> TRUE, rows |-> file.rows \o CsvRows(metrics)]

\* mutant of AppendOk: the chunk's aggregates are not handed to the sink
AppendOkNoFlush ==
    /\ pc = "events"
    /\ idx > Len(events)
    /\ pc' = "progress"
    /\ UNCHANGED <<node, args, search, current_block, end_block, chunk_size,
                   chunk, disk, ret, run, start_block, fetches, handed, exit,
                   failed_at, crash_pc>>

\* lines 248-249, append_chunk_data returns
AppendOk ==
    /\ pc = "events"
    /\ idx > Len(events)
    /\ csv_file' = AppendedCsv(csv_file, chunk_metrics)
    /\ handed' = Append(handed, HandedRecord)
    /\ pc' = "progress"
    /\ UNCHANGED <<node, args, search, current_block, end_block, chunk_size,
                   chunk, progress, prev_progress, saved, ret, run, start_block,
                   fetches, exit, failed_at, crash_pc>>

\* lines 248-249, DataFrame.to_csv raises before anything was written
AppendFail ==
    /\ pc = "events"
    /\ span_limit = 0
    /\ idx > Len(events)
    /\ Len(chunk_metrics) > 0
    /\ failed_at' = "append"
    /\ pc' = "except"
    /\ UNCHANGED <<node, args, search, current_block, end_block, chunk_size,
                   chunk, disk, ret, run, start_block, fetches, handed, exit,
                   crash_pc>>

\* lines 251-253
WriteProgressOk ==
    /\ pc = "progress"
    /\ progress' = WrittenProgress(current_block, end_block, chunk_end)
    /\ saved' = Append(saved, chunk_end)
    /\ pc' = "advance"
    /\ UNCHANGED <<node, args, search, current_block, end_block, chunk_size,
                   chunk, csv_file, prev_progress, ret, run, start_block, fetches,
                   handed, exit, failed_at, crash_pc>>

\* lines 251-253 raising, inside the try block
WriteProgressFail ==
    /\ pc = "progress"
    /\ span_limit = 0
    /\ progress' \in AfterFailedWrite(progress)
    /\ UNCHANGED saved
    /\ failed_at' = "progress"
    /\ pc' = "except"
    /\ UNCHANGED <<node, args, search, current_block, end_block, chunk_size,
                   chunk, csv_file, prev_progress, ret, run, start_block, fetches,
                   handed, exit, crash_pc>>

\* mutant of Advance: the loop goes on without the delay of line 256
AdvanceNoSleep ==
    /\ pc = "advance"
    /\ current_block' = chunk_end + 1
    /\ pc' = "loop"
    /\ UNCHANGED <<node, args, search, end_block, chunk_size, chunk, disk,
                   ret, run, start_block, fetches, handed, exit, failed_at,
                   crash_pc>>

\* line 255
Advance ==
    /\ pc = "advance"
    /\ current_block' = chunk_end + 1
    /\ pc' = "sleep"
    /\ UNCHANGED <<node, args, search, end_block, chunk_size, chunk, disk,
                   ret, run, start_block, fetches, handed, exit, failed_at,
                   crash_pc>>

\* line 256, time.sleep(0.5)
Pace ==
    /\ pc = "sleep"
    /\ pc' = "loop"
    /\ UNCHANGED <<node, args, search, current_block, end_block, chunk_size,
                   chunk, disk, ret, run, start_block, fetches, handed, exit,
                   failed_at, crash_pc>>

\* mutant of Halved: the handler doubles the chunk size
Doubled(size) == size * 2

\* mutant of Halved: the chunk size is quartered
HalvedTwice(size) == size \div 4

\* `chunk_size = chunk_size // 2`
Halved(size) == size \div 2

\* mutant of Except: the handler never stops at the floor
ExceptWithoutFloor ==
    /\ pc = "except"
    /\ chunk_size' = Halved(chunk_size)
    /\ pc' = "backoff"
    /\ UNCHANGED <<node, args, search, current_block, end_block, chunk, disk,
                   ret, run, start_block, fetches, handed, exit, failed_at,
                   crash_pc>>

\* mutant of Except: the handler gives the failed chunk up and moves on
ExceptSkipsChunk ==
    /\ pc = "except"
    /\ chunk_size' = Halved(chunk_size)
    /\ current_block' = chunk_end + 1
    /\ IF Halved(chunk_size) < MinChunkSize
       THEN /\ pc' = "return"
            /\ exit' = "aborted"
       ELSE /\ pc' = "backoff"
            /\ UNCHANGED exit
    /\ UNCHANGED <<node, args, search, end_block, chunk, disk, ret, run,
                   start_block, fetches, handed, failed_at, crash_pc>>

\* lines 258-263
Except ==
    /\ pc = "except"
    /\ chunk_size' = Halved(chunk_size)
    /\ IF Halved(chunk_size) < MinChunkSize
       THEN /\ pc' = "return"
            /\ exit' = "aborted"
       ELSE /\ pc' = "backoff"
            /\ UNCHANGED exit
    /\ UNCHANGED <<node, args, search, current_block, end_block, chunk, disk,
                   ret, run, start_block, fetches, handed, failed_at, crash_pc>>

\* lines 264-265, time.sleep(2); continue
Backoff ==
    /\ pc = "backoff"
    /\ pc' = "loop"
    /\ UNCHANGED <<node, args, search, current_block, end_block, chunk_size,
                   chunk, disk, ret, run, start_block, fetches, handed, exit,
                   failed_at, crash_pc>>

\* pd.read_csv(self.csv_file) if os.path.exists(self.csv_file) else None
ReadCsv(file) ==
    IF file.exists THEN [kind |-> "DataFrame", rows |-> file.rows] ELSE NoneFrame

\* line 267
Return ==
    /\ pc = "return"
    /\ ret' = ReadCsv(csv_file)
    /\ pc' = "returned"
    /\ UNCHANGED <<node, args, search, current_block, end_block, chunk_size,
                   chunk, disk, run, start_block, fetches, handed, exit,
                   failed_at, crash_pc>>

\* ------------------------------------------------------------------------
\* The process is killed; main() is run again
\* ------------------------------------------------------------------------

Terminal == {"returned", "raised", "crashed"}

\* positions between the request of a chunk and the end of its commit
MidChunk == {"fetch", "events", "progress", "advance", "except"}

CrashPhase(at) == IF at \in MidChunk THEN "chunk" ELSE "other"

\* the process dies between two steps; the files stay as they are
Crash ==
    /\ pc \notin Terminal
    /\ span_limit = 0
    /\ crash_pc' = CrashPhase(pc)
    /\ pc' = "crashed"
    /\ UNCHANGED <<node, args, search, current_block, end_block, chunk_size,
                   chunk, disk, ret, run, start_block, fetches, handed, exit,
                   failed_at>>

\* main() again with the same arguments: __init__ -> setup_directories makes
\* a new session directory (named by the current time), so csv_file and
\* progress.txt are new paths; nothing reads the old progress.txt.  Then
\* get_token_metrics starts from its first line.
Restart ==
    /\ pc \in Terminal
    /\ span_limit = 0
    /\ run < MaxRuns
    /\ run' = run + 1
    /\ prev_progress' = progress
    /\ progress' = NoProgress
    /\ saved' = <<>>
    /\ csv_file' = NoCsv
    /\ pc' = "find_start"
    /\ left' = 1 /\ right' = BlockNumber
    /\ current_block' = None /\ end_block' = None
    /\ chunk_size' = cs0 /\ chunk_end' = 0
    /\ events' = <<>> /\ idx' = 1 /\ attempt' = 0
    /\ chunk_metrics' = <<>> /\ chunk_logs' = {}
    /\ ret' = Pending
    /\ start_block' = None
    /\ fetches' = <<>> /\ handed' = <<>>
    /\ exit' = "none" /\ failed_at' = "none"
    /\ crash_pc' = IF pc = "crashed" THEN crash_pc ELSE "none"
    /\ UNCHANGED <<node, args>>

Next ==
    \/ FindProbeOk \/ FindProbeFail \/ FindExhausted
    \/ CheckBounds
    \/ SaveProgressOk \/ SaveProgressFail
    \/ LoopTest
    \/ FetchOk \/ FetchFail
    \/ EventOk \/ EventRetry \/ EventRaise
    \/ AppendOk \/ AppendFail
    \/ WriteProgressOk \/ WriteProgressFail
    \/ Advance \/ Pace
    \/ Except \/ Backoff
    \/ Return
    \/ Crash \/ Restart

Spec == Init /\ [][Next]_vars


\* ------------------------------------------------------------------------
\* One invocation that is not killed: every call returns or raises
\* ------------------------------------------------------------------------

NextRun ==
    \/ FindProbeOk \/ FindProbeFail \/ FindExhausted
    \/ CheckBounds
    \/ SaveProgressOk \/ SaveProgressFail
    \/ LoopTest
    \/ FetchOk \/ FetchFail
    \/ EventOk \/ EventRetry \/ EventRaise
    \/ AppendOk \/ AppendFail
    \/ WriteProgressOk \/ WriteProgressFail
    \/ Advance \/ Pace
    \/ Except \/ Backoff
    \/ Return

\* One thread of control, blocking calls that all come back: the process
\* keeps taking steps until get_token_metrics has returned or raised.
SpecRun == Init /\ [][NextRun]_vars /\ WF_vars(NextRun)

\* ------------------------------------------------------------------------
\* The locator alone, on every small chain with non-decreasing timestamps
\* ------------------------------------------------------------------------

NonDecreasing(c) == \A i \in 1..(Len(c) - 1) : c[i] <= c[i + 1]

LocChains ==
    { c \in UNION { [1..h -> 1..MaxLocTs] : h \in 1..MaxLocHeight } :
        NonDecreasing(c) }

\* targets from below the first block's timestamp to above the last one's
InitLocate ==
    \E c \in LocChains : \E s, e \in 0..(MaxLocTs + 1) :
        Start(c, <<>>, 0, s, e, 1)

NextLocate == FindProbeOk \/ FindProbeFail \/ FindExhausted

SpecLocate == InitLocate /\ [][NextLocate]_vars

\* ------------------------------------------------------------------------
\* A scan against the client stub that fails exactly the get_logs requests
\* spanning more than span_limit blocks (every other call succeeds)
\* ------------------------------------------------------------------------

StubLogs == << TransferLog(1, 10, "A", "B", 150),
               TransferLog(2, 300, "B", "C", 50),
               TransferLog(3, StubHeight, "C", "A", 300) >>

StubLimits == {50, 100, 200, 201, 250}

StubSizes == {251, 400, 1000}

InitStub ==
    \E limit \in StubLimits, size \in StubSizes :
    \E e \in {1000 + 600 * 300 + 7, 1000 + 600 * StubHeight} :
        Start(LinearChain(StubHeight), StubLogs, limit, 1600, e, size)

NextStub ==
    \/ FindProbeOk \/ FindExhausted
    \/ CheckBounds
    \/ SaveProgressOk
    \/ LoopTest
    \/ FetchOk \/ FetchFail
    \/ EventOk
    \/ AppendOk
    \/ WriteProgressOk
    \/ Advance \/ Pace
    \/ Except \/ Backoff
    \/ Return

\* One thread of control and every remote call returns: the process keeps
\* taking steps until get_token_metrics has returned.
SpecStub == InitStub /\ [][NextStub]_vars /\ WF_vars(NextStub)

\* ------------------------------------------------------------------------
\* The aggregation alone: the loop over the events of one chunk, fed the
\* same observations in every order
\* ------------------------------------------------------------------------

\* four blocks, the last one on the next calendar date
ObserveChain == <<100, 200, 300, SecondsPerDay + 100>>

\* transfers of 0.1, 0.2 and 0.3 token on the first date, 1.5 on the second
ObserveFeed == << TransferLog(1, 1, "A", "B", 10),
                  TransferLog(2, 2, "B", "C", 20),
                  TransferLog(3, 3, "C", "A", 30),
                  TransferLog(4, 4, "A", "C", 150) >>

\* the state in which `for event in events` starts on a fresh chunk_metrics
InitObserve ==
    \E p \in Permutations(1..Len(ObserveFeed)) :
        /\ chain = ObserveChain /\ logs = ObserveFeed /\ span_limit = 0
        /\ start_ts = ObserveChain[1]
        /\ end_ts = ObserveChain[Len(ObserveChain)]
        /\ cs0 = Len(ObserveChain)
        /\ pc = "events"
        /\ left = Len(ObserveChain) /\ right = Len(ObserveChain)
        /\ current_block = 1 /\ end_block = Len(ObserveChain)
        /\ chunk_size = Len(ObserveChain) /\ chunk_end = Len(ObserveChain)
        /\ events = [i \in 1..Len(ObserveFeed) |-> ObserveFeed[p[i]]]
        /\ idx = 1 /\ attempt = 0
        /\ chunk_metrics = <<>> /\ chunk_logs = {}
        /\ progress = WrittenProgress(1, Len(ObserveChain), 1)
        /\ csv_file = NoCsv
        /\ prev_progress = NoProgress
        /\ saved = <<1>>
        /\ ret = Pending
        /\ run = 1 /\ start_block = 1
        /\ fetches = << [fromBlock |-> 1, toBlock |-> Len(ObserveChain),
                         size |-> Len(ObserveChain), ok |-> TRUE] >>
        /\ handed = <<>>
        /\ exit = "none" /\ failed_at = "none" /\ crash_pc = "none"

NextObserve == EventOk

SpecObserve == InitObserve /\ [][NextObserve]_vars

\* ------------------------------------------------------------------------
\* Reference computations used by the properties
\* ------------------------------------------------------------------------

\* lines 234-246 over a whole list of events, every get_block succeeding
RECURSIVE Aggregated(_, _)
Aggregated(metrics, evs) ==
    IF evs = <<>> THEN metrics
    ELSE Aggregated(Observe(metrics, DateOf(chain[Head(evs).blockNumber]),
                            Head(evs)),
                    Tail(evs))

\* the rows lines 211-256 append when no call fails and the process is not
\* killed
RECURSIVE ScanRows(_, _, _)
ScanRows(cur, last, size) ==
    IF LoopCondition(cur, last)
    THEN CsvRows(Aggregated(<<>>, get_logs(cur, ChunkEnd(cur, size, last))))
           \o ScanRows(ChunkEnd(cur, size, last) + 1, last, size)
    ELSE <<>>

\* what an uninterrupted, failure-free scan of the located range returns
UninterruptedResult ==
    LET rows == ScanRows(start_block, end_block, cs0)
    IN  ReadCsv([exists |-> rows # <<>>, rows |-> rows])

RECURSIVE SumTransactions(_, _)
SumTransactions(rows, d) ==
    IF rows = <<>> THEN 0
    ELSE (IF Head(rows).date = d THEN Head(rows).transactions ELSE 0)
           + SumTransactions(Tail(rows), d)

RECURSIVE SumVolume(_, _)
SumVolume(rows, d) ==
    IF rows = <<>> THEN ZeroVolume
    ELSE IF Head(rows).date = d
         THEN AddVolume(Head(rows).volume, SumVolume(Tail(rows), d))
         ELSE SumVolume(Tail(rows), d)

\* per date, the totals of the rows of a result
PerDayTotals(rows) ==
    { [date |-> d, transactions |-> SumTransactions(rows, d),
       volume |-> SumVolume(rows, d)] : d \in {rows[i].date : i \in 1..Len(rows)} }

\* the windows whose logs were decoded, aggregated and handed to the sink
Covered(b) ==
    \E i \in 1..Len(handed) : handed[i].fromBlock <= b /\ b <= handed[i].toBlock

\* number of append_chunk_data calls that counted log l
TimesHanded(l) ==
    Cardinality({i \in 1..Len(handed) : l.logIndex \in handed[i].logs})

\* ------------------------------------------------------------------------
\* Properties
\* ------------------------------------------------------------------------

\* C1: when the chunk loop ends without an abort (Done), every block of
\* [start, end], end included, lies in the window of a successful fetch
\* whose logs were decoded and aggregated.
DoneCoversRange ==
    (pc = "returned" /\ exit = "done" /\ start_block <= end_block)
        => \A b \in start_block..end_block : Covered(b)

\* C2: no transfer log is added more than once to the aggregates that reach
\* the sink, whatever calls fail and whatever chunks are retried.
ExactlyOnce == \A i \in 1..Len(logs) : TimesHanded(logs[i]) <= 1

\* C3: a scan started again after a checkpoint with last_processed = L was
\* saved issues its first fetch at L + 1 and no fetch covering a block <= L.
ResumeAfterCheckpoint ==
    (run > 1 /\ prev_progress.state = "written")
        => /\ \A i \in 1..Len(fetches) :
                 fetches[i].fromBlock > prev_progress.last_processed
           /\ Len(fetches) >= 1
                 => fetches[1].fromBlock = prev_progress.last_processed + 1

\* the run in progress continued from the checkpoint the previous session
\* saved: its first fetch starts right after last_processed
ResumedFromSaved ==
    /\ prev_progress.state = "written"
    /\ Len(fetches) >= 1 => fetches[1].fromBlock = prev_progress.last_processed + 1

\* C4: a scan killed in the middle of a chunk and run again from the saved
\* progress ends (Done) with the same per-day aggregates as one
\* uninterrupted scan of the same chain and logs.
ResumeEquivalence ==
    (run > 1 /\ crash_pc = "chunk" /\ pc = "returned" /\ exit = "done")
        => /\ ResumedFromSaved
           /\ PerDayTotals(ret.rows) = PerDayTotals(UninterruptedResult.rows)

\* block b's timestamp is at least as close to t as every block's
Closest(b, t) ==
    \A k \in 1..BlockNumber : Abs(chain[b] - t) <= Abs(chain[k] - t)

\* C5: on a chain with non-decreasing timestamps and a target inside the
\* chain's timestamp range, find_block_by_timestamp returns a block whose
\* timestamp is closest to the target (as a brute-force scan finds).
LocateReturnsClosest ==
    pc = "check_bounds"
        => /\ current_block # None => Closest(current_block, start_ts)
           /\ end_block # None => Closest(end_block, end_ts)


\* C6 as stated, for any N: against the stub a scan started with a chunk
\* size above N over a range much larger than N ends Done, not Aborted,
\* with a chunk size <= N.
AdaptiveChunkingAnyLimit ==
    (/\ pc = "returned"
     /\ cs0 > span_limit
     /\ end_block - start_block + 1 >= 2 * span_limit)
        => exit = "done" /\ chunk_size <= span_limit

\* the premise of C6 with the limit at least twice the floor
StubPremise ==
    /\ span_limit >= 2 * MinChunkSize
    /\ cs0 > span_limit
    /\ end_block - start_block + 1 > span_limit

\* C6 (amended): for any N >= 200, against the stub a scan started with a
\* chunk size above N over a range of more than N blocks eventually returns
\* Done, with a chunk size that is at least the floor and below N.
AdaptiveChunking ==
    (pc = "save_progress" /\ StubPremise)
        ~> (/\ pc = "returned"
            /\ exit = "done"
            /\ MinChunkSize <= chunk_size
            /\ chunk_size < span_limit)

AdaptiveChunkingWitness ==
    /\ pc = "returned"
    /\ exit = "done"
    /\ StubPremise
    /\ chunk_size < span_limit
    /\ \E i \in 1..Len(fetches) : ~fetches[i].ok
    /\ Len(handed) >= 2


\* the per-day aggregates handed to the sink by this run, in order
RECURSIVE Yielded(_)
Yielded(h) == IF h = <<>> THEN <<>> ELSE Head(h).metrics \o Yielded(Tail(h))

\* the scenario of C7: the 5-block chain, one log at block 2 and one at
\* block 4, blocks 1 to 5 scanned
IsScenario ==
    /\ logs = SmallLogs
    /\ Len(chain) = 5
    /\ start_block = 1
    /\ end_block = 5

ExpectedScenario ==
    IF DateOf(chain[2]) = DateOf(chain[4])
    THEN << [date |-> DateOf(chain[2]), transactions |-> 2,
             active_addresses |-> {"A", "B", "C"},
             volume |-> FromInt(3),
             senders |-> {"A", "B"}, receivers |-> {"B", "C"}] >>
    ELSE << [date |-> DateOf(chain[2]), transactions |-> 1,
             active_addresses |-> {"A", "B"},
             volume |-> FromInt(1),
             senders |-> {"A"}, receivers |-> {"B"}],
            [date |-> DateOf(chain[4]), transactions |-> 1,
             active_addresses |-> {"B", "C"},
             volume |-> FromInt(2),
             senders |-> {"B"}, receivers |-> {"C"}] >>

\* C7: in the scenario a scan that completes without any failed call
\* yields, for every chunk size, exactly one aggregate for block 2's day
\* and one for block 4's day, merged into one when they are the same date.
ConcreteScenario ==
    (IsScenario /\ pc = "returned" /\ exit = "done" /\ failed_at = "none")
        => /\ Yielded(handed) = ExpectedScenario
           /\ ret.rows = CsvRows(ExpectedScenario)

\* C8 as stated: every fetch is issued with a chunk size of at least the
\* floor of 100 blocks.
FetchAtLeastFloor ==
    \A i \in 1..Len(fetches) : fetches[i].size >= MinChunkSize

\* C8 (amended): every fetch is issued with a chunk size of at least
\* min(100, the caller's initial chunk size), so at least 100 whenever the
\* caller's size is; once a failure has halved the size below 100 the scan
\* is Aborted and at its return, where no fetch is issued.
ChunkFloor ==
    /\ \A i \in 1..Len(fetches) : fetches[i].size >= Min(cs0, MinChunkSize)
    /\ (chunk_size < MinChunkSize /\ chunk_size # cs0)
          => exit = "aborted" /\ pc \in {"return", "returned", "crashed"}
    /\ exit = "aborted"
          => /\ chunk_size < MinChunkSize
             /\ pc \in {"return", "returned", "crashed"}
             /\ failed_at # "none"

ChunkFloorWitness ==
    /\ pc = "returned"
    /\ exit = "aborted"
    /\ cs0 >= 2 * MinChunkSize
    /\ Len(fetches) >= 2
    /\ fetches[Len(fetches)].size = MinChunkSize
    /\ ~fetches[Len(fetches)].ok
    /\ chunk_size < MinChunkSize

\* number of get_logs requests of this run that raised
FailedFetches == Cardinality({i \in 1..Len(fetches) : ~fetches[i].ok})

RECURSIVE HalvedTimes(_, _)
HalvedTimes(size, k) == IF k = 0 THEN size ELSE HalvedTimes(Halved(size), k - 1)

\* the scan aborted at the floor, and fetch failures alone brought it there
AbortedByFetchFailures ==
    /\ pc = "returned"
    /\ exit = "aborted"
    /\ failed_at = "fetch"
    /\ chunk_size = HalvedTimes(cs0, FailedFetches)

\* C9: the value returned after fetch failures made the scan abort at the
\* floor differs from what a completed scan of the same range returns, so
\* that the caller can tell Aborted from Done.
AbortDistinguishable ==
    AbortedByFetchFailures => ret # UninterruptedResult

\* a step of a chunk attempt failing before its flush (get_logs or a block
\* lookup raised), or a step of the handler of such a failure
PreFlushFailureStep ==
    \/ /\ pc \in {"fetch", "events"}
       /\ pc' = "except"
       /\ failed_at' \in {"fetch", "events"}
    \/ /\ pc \in {"except", "backoff"}
       /\ failed_at \in {"fetch", "events"}
       /\ pc' \in {"backoff", "loop", "return"}

\* C10: a chunk attempt that fails before its flush leaves the sink, the
\* persisted checkpoint and the chunk start as they were after the last
\* committed chunk.
FailedAttemptFrame ==
    [][PreFlushFailureStep
          => /\ csv_file' = csv_file
             /\ progress' = progress
             /\ current_block' = current_block]_vars

FailedAttemptWitness ==
    /\ pc = "backoff"
    /\ failed_at = "events"
    /\ Len(handed) >= 1
    /\ csv_file.exists
    /\ progress.state = "written"
    /\ progress.last_processed = handed[Len(handed)].toBlock
    /\ current_block = progress.last_processed + 1
    /\ chunk_metrics # <<>>

\* the rows the sink holds once the aggregates of h were appended in order
RECURSIVE FlushedRows(_)
FlushedRows(h) ==
    IF h = <<>> THEN <<>> ELSE CsvRows(Head(h).metrics) \o FlushedRows(Tail(h))

\* a chunk was requested and its aggregates have not reached the sink
InFlightUnflushed ==
    \/ pc \in {"fetch", "events"}
    \/ pc = "except" /\ failed_at # "progress"

\* C11: the aggregates of a chunk are written to the sink before the
\* persisted last_processed is set to the chunk's end: a checkpoint written
\* after a chunk names the end of a chunk whose aggregates the sink holds,
\* and never the end of the chunk still in flight.
FlushBeforeCheckpoint ==
    /\ csv_file.rows = FlushedRows(handed)
    /\ (progress.state = "written" /\ Len(saved) >= 2)
          => \E i \in 1..Len(handed) :
                 handed[i].toBlock = progress.last_processed
    /\ (progress.state = "written" /\ InFlightUnflushed)
          => chunk_end # progress.last_processed
    /\ pc = "advance"
          => /\ progress = WrittenProgress(current_block, end_block, chunk_end)
             /\ Len(handed) >= 1
             /\ handed[Len(handed)] = HandedRecord

FlushBeforeCheckpointWitness ==
    /\ pc = "advance"
    /\ Len(handed) >= 2
    /\ chunk_metrics # <<>>
    /\ csv_file.exists
    /\ progress.last_processed = chunk_end
\* C12: whenever progress.txt holds a checkpoint, its values satisfy
\* start_block <= last_processed <= end_block.
CheckpointWithinRange ==
    progress.state = "written"
        => /\ progress.start_block <= progress.last_processed
           /\ progress.last_processed <= progress.end_block
\* C13: within a run the persisted last_processed never decreases: every
\* checkpoint write stores a value at least as large as the one written
\* before it, and the file holds the value written last.
CheckpointMonotone ==
    /\ \A i, j \in 1..Len(saved) : i < j => saved[i] <= saved[j]
    /\ progress.state = "written"
          => /\ Len(saved) >= 1
             /\ progress.last_processed = saved[Len(saved)]

CheckpointMonotoneWitness ==
    /\ pc = "advance"
    /\ Len(saved) >= 3
    /\ saved[1] < saved[2]
    /\ saved[2] < saved[3]
    /\ failed_at # "none"
    /\ chunk_size < cs0
\* C14: the chunk size never increases during a run: it is at most the
\* caller's initial chunk size in every state, and no step of a run makes
\* it larger than it was.
ChunkSizeNeverGrows ==
    /\ [](chunk_size <= cs0)
    /\ [][run' = run => chunk_size' <= chunk_size]_vars

ChunkSizeNeverGrowsWitness ==
    /\ pc = "fetch"
    /\ chunk_size < cs0
    /\ Len(handed) >= 1
    /\ \E i \in 1..Len(fetches) : ~fetches[i].ok
    /\ \E i \in 1..Len(fetches) : fetches[i].ok /\ fetches[i].size = chunk_size
\* the most exceptions the handler takes before the halved size is below
\* the floor
RECURSIVE MaxFailures(_)
MaxFailures(size) ==
    IF size \div 2 < MinChunkSize THEN 1 ELSE 1 + MaxFailures(size \div 2)

\* C15: the scan is finite: whatever calls succeed or fail (each call
\* returning), a chunk loop that was entered reaches its end, Done or
\* Aborted, and get_token_metrics returns; the fetches issued are at most
\* one per block of the range plus one per possible halving.
ScanFinite ==
    /\ [](Len(fetches) >= 1
            => Len(fetches) <= (end_block - start_block) + MaxFailures(cs0))
    /\ (pc = "loop") ~> (pc = "returned" /\ exit \in {"done", "aborted"})

ScanFiniteWitness ==
    /\ pc = "returned"
    /\ exit = "aborted"
    /\ Len(handed) >= 1
    /\ Len(fetches) >= 4
    /\ \E i \in 1..Len(fetches) : fetches[i].ok
    /\ ~fetches[Len(fetches)].ok
\* the log has fewer than the three topics the decoder reads
ShortOfTopics(l) == Len(l.topics) < 3

\* the loop over the events of a chunk passes a log with fewer than 3 topics
SkipsShortLog ==
    /\ pc = "events"
    /\ idx <= Len(events)
    /\ ShortOfTopics(events[idx])
    /\ idx' = idx + 1

\* C16: a log with fewer than 3 topics makes the decoder return its error
\* value and no exception reaches the handler of the chunk loop; the log is
\* passed over without a change to any aggregate, and the chunk is handed
\* to the sink with every other log of the chunk counted.
ShortLogSkipped ==
    /\ [](failed_at # "decode")
    /\ [][SkipsShortLog => chunk_metrics' = chunk_metrics /\ pc' = "events"]_vars
    /\ [](pc = "progress"
            => /\ \A i \in 1..Len(events) :
                     /\ ShortOfTopics(events[i])
                           => ~decode_transfer_event(events[i]).ok
                     /\ events[i].logIndex \in chunk_logs
                           <=> decode_transfer_event(events[i]).ok
               /\ chunk_metrics =
                     Aggregated(<<>>, SelectSeq(events,
                                               LAMBDA l : ~ShortOfTopics(l))))

ShortLogSkippedWitness ==
    /\ pc = "progress"
    /\ \E i, j \in 1..Len(events) :
          /\ i < j
          /\ ShortOfTopics(events[i])
          /\ events[i].logIndex \notin chunk_logs
          /\ events[j].logIndex \in chunk_logs
    /\ handed[Len(handed)].logs = chunk_logs
\* C17: a log is decoded into a transfer and counted in the aggregates only
\* if it has exactly three topics; with fewer or more it contributes
\* nothing.
ExactlyThreeTopics ==
    \A h \in 1..Len(handed) : \A i \in 1..Len(logs) :
        logs[i].logIndex \in handed[h].logs => Len(logs[i].topics) = 3
\* number of the events of evs that decode into a transfer and whose block
\* lies on the date
RECURSIVE CountDecoded(_, _)
CountDecoded(evs, date) ==
    IF evs = <<>> THEN 0
    ELSE (IF /\ decode_transfer_event(Head(evs)).ok
             /\ DateOf(chain[Head(evs).blockNumber]) = date
          THEN 1 ELSE 0)
           + CountDecoded(Tail(evs), date)

\* the events the loop over the chunk in flight has passed
Observed == SubSeq(events, 1, idx - 1)

\* C18: in every daily aggregate, while it is built and when it is handed
\* to the sink, active_addresses is the union of senders and receivers and
\* transactions is the number of decoded transfers observed for its date.
AggregateConsistent ==
    /\ \A k \in 1..Len(chunk_metrics) :
          LET m == chunk_metrics[k]
          IN  /\ m.active_addresses = m.senders \cup m.receivers
              /\ m.transactions = CountDecoded(Observed, m.date)
    /\ \A h \in 1..Len(handed) : \A k \in 1..Len(handed[h].metrics) :
          LET m == handed[h].metrics[k]
          IN  /\ m.active_addresses = m.senders \cup m.receivers
              /\ m.transactions =
                    CountDecoded(get_logs(handed[h].fromBlock, handed[h].toBlock),
                                 m.date)

AggregateConsistentWitness ==
    /\ pc = "events"
    /\ idx <= Len(events)
    /\ \E k \in 1..Len(chunk_metrics) :
          /\ chunk_metrics[k].transactions >= 2
          /\ Cardinality(chunk_metrics[k].active_addresses) = 3
          /\ chunk_metrics[k].senders # chunk_metrics[k].receivers
    /\ CountDecoded(Observed, DateOf(chain[events[1].blockNumber])) < idx - 1
\* C19: aggregation is order-independent: the same observations fed to a
\* fresh aggregator in any order give the same per-day values
\* (transactions, senders, receivers, active addresses, volume) as in the
\* order of the log list.
OrderIndependent ==
    (pc = "events" /\ idx > Len(events))
        => Range(chunk_metrics) = Range(Aggregated(<<>>, logs))
\* the aggregates of every decoded log of blocks first..last, by date
Cumulative(first, last) == Range(Aggregated(<<>>, get_logs(first, last)))

\* the last row of the result written for the date
LastRowOf(rows, d) ==
    rows[CHOOSE i \in 1..Len(rows) :
            /\ rows[i].date = d
            /\ \A j \in (i + 1)..Len(rows) : rows[j].date # d]

\* C20: in a scan without any failed call, each flush hands the sink the
\* cumulative aggregate, per date, over all chunks processed so far, so
\* the last row written for a date is the date's total over the range.
CumulativeFlush ==
    failed_at = "none"
        => /\ \A h \in 1..Len(handed) :
                 Range(handed[h].metrics)
                     = Cumulative(start_block, handed[h].toBlock)
           /\ (pc = "returned" /\ exit = "done")
                 => \A m \in Cumulative(start_block, end_block) :
                        LastRowOf(ret.rows, m.date) = CsvRow(m)
\* C21: a failed write of the checkpoint is fatal for the run: it is not
\* handled as a fetch failure (halving, delay, retry of the chunk) and no
\* get_logs request is issued after it.
CheckpointFailureFatal ==
    failed_at = "progress" => pc \notin {"backoff", "loop", "fetch", "events"}
\* a search has returned its failure result
LocateFailed ==
    \/ pc # "find_start" /\ current_block = None
    \/ pc \notin {"find_start", "find_end"} /\ end_block = None

\* C22: a block fetch that fails during the search for either bound ends
\* that search at once with the failure result, and the scan does not
\* start: no get_logs request is issued and neither progress.txt nor the
\* CSV is written.
LocateFailureStopsScan ==
    /\ failed_at = "locate" => LocateFailed
    /\ LocateFailed
          => /\ pc \in {"find_end", "check_bounds", "returned", "crashed"}
             /\ pc = "returned" => ret = NoneFrame /\ exit = "locate_failed"
             /\ fetches = <<>>
             /\ handed = <<>>
             /\ progress = NoProgress
             /\ csv_file = NoCsv
             /\ saved = <<>>

LocateFailureStopsScanWitness ==
    /\ pc = "returned"
    /\ exit = "locate_failed"
    /\ failed_at = "locate"
    /\ current_block = None
    /\ end_block # None
    /\ fetches = <<>>
    /\ progress = NoProgress
\* C23: after a failed fetch for the window [chunkStart, chunkEnd] the next
\* fetch has the same chunkStart and a strictly smaller chunkEnd, also for
\* a window that was clamped to the end of the range.
RetryShrinksWindow ==
    \A i \in 1..(Len(fetches) - 1) :
        ~fetches[i].ok
            => /\ fetches[i + 1].fromBlock = fetches[i].fromBlock
               /\ fetches[i + 1].toBlock < fetches[i].toBlock
\* the lowest-numbered block whose timestamp exceeds t, or the height of
\* the chain when no block's does
LowestAbove(t) ==
    IF \E b \in 1..BlockNumber : chain[b] > t
    THEN CHOOSE b \in 1..BlockNumber :
             /\ chain[b] > t
             /\ \A k \in 1..(b - 1) : chain[k] <= t
    ELSE BlockNumber

\* the loop of the search in progress has ended without a return
SearchExhausted == pc \in {"find_start", "find_end"} /\ left > right

PacedFetches ==
    /\ [][(pc' = "fetch" /\ pc # "fetch") => pc = "loop"]_vars
    /\ [][(pc' = "loop" /\ pc # "loop")
            => \/ pc \in {"sleep", "backoff"}
               \/ pc = "save_progress" /\ fetches = <<>>]_vars
    /\ [][(pc' = "sleep" /\ pc # "sleep")
            => pc = "advance" /\ fetches[Len(fetches)].ok]_vars

PacedFetchesWitness ==
    /\ pc = "fetch"
    /\ Len(fetches) >= 2
    /\ fetches[1].ok
    /\ ~fetches[2].ok
    /\ Len(handed) >= 1

\* C26: once progress.txt has been written, every block from the start of
\* the range to the persisted last_processed lies in the window of a
\* successful fetch whose aggregates were handed to the sink, the first
\* write before any fetch included.
CheckpointCoversFlushed ==
    progress.state = "written"
        => \A b \in start_block..progress.last_processed : Covered(b)

\* the same for the writes that follow a chunk only
ChunkCheckpointCoversFlushed ==
    (progress.state = "written" /\ Len(saved) >= 2)
        => \A b \in start_block..progress.last_processed : Covered(b)

\* C27: a get_logs request spans at most chunk_size blocks.
FetchSpanWithinChunkSize ==
    \A i \in 1..Len(fetches) :
        fetches[i].toBlock - fetches[i].fromBlock + 1 <= fetches[i].size

\* what the requests do satisfy: at most chunk_size + 1 blocks
FetchSpanWithinChunkSizePlusOne ==
    \A i \in 1..Len(fetches) :
        fetches[i].toBlock - fetches[i].fromBlock + 1 <= fetches[i].size + 1

\* C28: only a failed get_logs request reduces the chunk size: outside the
\* handler the chunk size is the initial one halved once per failed
\* request, so that a block lookup or an append that raises after a
\* successful request leaves it alone and brings the floor no nearer.
HalvedOnlyOnFetchFailure ==
    pc \in {"loop", "fetch", "events", "append", "progress", "advance",
             "sleep", "backoff", "return", "returned"}
        => chunk_size = HalvedTimes(cs0, FailedFetches)

====
